---- MODULE Spec2Model ----
(***************************************************************************)
(* AutoRSS Lite (src/main.py): a one-shot static site generator.           *)
(*                                                                         *)
(* Strings are sequences of one-character strings, so that the regular     *)
(* expressions of the source can be evaluated position by position.        *)
(***************************************************************************)
EXTENDS Integers, Sequences, FiniteSets, TLC

VARIABLES
    \* ---- the pipeline (main) and the filesystem it works on
    mode,        \* "pipeline" | "selftest": the command line of the current run
    pc,          \* position of the current run in main()
    exitCode,    \* exit status of the current run, "running" until it ends
    cause,       \* what ended the current run
    events,      \* effects of the current run, in order
    lock,        \* .lite_lock.json: "absent" or the kind of its content
    startLock,   \* value of lock when the current run started
    files,       \* output files present on disk
    runs,        \* invocations started so far
    lockWrites,  \* writes of the marker over all invocations
    \* ---- generate_body_html
    apiText,     \* message content as returned by the generation API
    sanitized,   \* the text after the two sanitizer passes
    body,        \* result of generate_body_html
    resanitized, \* the two sanitizer passes applied to their own output
    sanPc,
    \* ---- load_config
    cfgDoc,      \* the configuration document
    cfgResult,   \* outcome of load_config
    \* ---- strip_tags in render_site
    summary,     \* summary string of the feed entry
    teaser,      \* post_obj["summary"]
    teaserPc

pipeVars == <<mode, pc, exitCode, cause, events, lock, startLock, files, runs, lockWrites>>
sanVars == <<apiText, sanitized, body, resanitized, sanPc>>
cfgVars == <<cfgDoc, cfgResult>>
teaVars == <<summary, teaser, teaserPc>>
vars == <<pipeVars, sanVars, cfgVars, teaVars>>

----------------------------------------------------------------------------
(* Characters and strings *)

UpperSeq == <<"A","B","C","D","E","F","G","H","I","J","K","L","M",
              "N","O","P","Q","R","S","T","U","V","W","X","Y","Z">>
LowerSeq == <<"a","b","c","d","e","f","g","h","i","j","k","l","m",
              "n","o","p","q","r","s","t","u","v","w","x","y","z">>
Digits == {"0","1","2","3","4","5","6","7","8","9"}

\* str.lower() on one character
Lower(c) ==
    IF \E k \in 1..26 : UpperSeq[k] = c
    THEN LowerSeq[CHOOSE k \in 1..26 : UpperSeq[k] = c]
    ELSE c

\* (?i)[a-z0-9]
IsAlnum(c) == (\E k \in 1..26 : LowerSeq[k] = Lower(c)) \/ c \in Digits

\* \s, and the characters str.strip() removes
IsSpace(c) == c \in {" ", "\n", "\t"}

LowerStr(s) == [k \in 1..Len(s) |-> Lower(s[k])]

Slice(s, a, b) == IF a > b THEN <<>> ELSE SubSeq(s, a, b)

\* str.strip()
Strip(s) ==
    LET keep == {k \in 1..Len(s) : ~IsSpace(s[k])}
    IN  IF keep = {} THEN <<>>
        ELSE LET a == CHOOSE k \in keep : \A m \in keep : k <= m
                 b == CHOOSE k \in keep : \A m \in keep : k >= m
             IN  SubSeq(s, a, b)

\* index of the first ">" at or after position i, 0 when there is none
FirstGT(s, i) ==
    LET at == {j \in i..Len(s) : s[j] = ">"}
    IN  IF at = {} THEN 0 ELSE CHOOSE j \in at : \A m \in at : j <= m

\* first position at or after i that holds no whitespace (Len(s)+1 when none)
SkipSpaces(s, i) ==
    LET at == {j \in i..Len(s) : ~IsSpace(s[j])}
    IN  IF at = {} THEN Len(s) + 1 ELSE CHOOSE j \in at : \A m \in at : j <= m

\* first position at or after i that holds no [a-z0-9] (Len(s)+1 when none)
AlnumEnd(s, i) ==
    LET at == {j \in i..Len(s) : ~IsAlnum(s[j])}
    IN  IF at = {} THEN Len(s) + 1 ELSE CHOOSE j \in at : \A m \in at : j <= m

\* the word w (lower case) stands at position i of s, case ignored
MatchWord(s, i, w) ==
    /\ i >= 1
    /\ i + Len(w) - 1 <= Len(s)
    /\ \A k \in 1..Len(w) : Lower(s[i + k - 1]) = w[k]

----------------------------------------------------------------------------
(* normalize_ws and strip_tags *)

RECURSIVE CollapseWs(_, _)
\* re.sub(r"\s+", " ", s) from position i on
CollapseWs(s, i) ==
    IF i > Len(s) THEN <<>>
    ELSE IF IsSpace(s[i]) THEN <<" ">> \o CollapseWs(s, SkipSpaces(s, i))
    ELSE <<s[i]>> \o CollapseWs(s, i + 1)

normalize_ws(s) == CollapseWs(Strip(s), 1)

\* end of the match of <[^>]+> that starts at position i, 0 when there is none
AnyTagEnd(s, i) ==
    IF s[i] # "<" THEN 0
    ELSE LET g == FirstGT(s, i + 1)
         IN  IF g > i + 1 THEN g ELSE 0

RECURSIVE SubAnyTag(_, _)
\* re.sub(r"(?is)<[^>]+>", " ", s) from position i on
SubAnyTag(s, i) ==
    IF i > Len(s) THEN <<>>
    ELSE LET e == AnyTagEnd(s, i)
         IN  IF e # 0 THEN <<" ">> \o SubAnyTag(s, e + 1)
             ELSE <<s[i]>> \o SubAnyTag(s, i + 1)

RECURSIVE SubFirstAnyTag(_, _)
\* variant: re.sub(..., count=1), only the first tag is replaced
SubFirstAnyTag(s, i) ==
    IF i > Len(s) THEN <<>>
    ELSE LET e == AnyTagEnd(s, i)
         IN  IF e # 0 THEN <<" ">> \o Slice(s, e + 1, Len(s))
             ELSE <<s[i]>> \o SubFirstAnyTag(s, i + 1)

strip_tags_first_only(html) == normalize_ws(SubFirstAnyTag(html, 1))

strip_tags(html) == normalize_ws(SubAnyTag(html, 1))

----------------------------------------------------------------------------
(* The sanitizer of generate_body_html *)

Word_script == <<"s","c","r","i","p","t">>
Word_style == <<"s","t","y","l","e">>

allowed == { <<"p">>, <<"h","2">>, <<"u","l">>, <<"l","i">>,
             <<"s","t","r","o","n","g">>, <<"c","o","d","e">>, <<"a">> }

\* </\1\s*> at position m: index of its ">", 0 when it does not match
CloseTagEnd(s, m, name) ==
    IF /\ m + 1 <= Len(s)
       /\ s[m] = "<"
       /\ s[m + 1] = "/"
       /\ MatchWord(s, m + 2, name)
    THEN LET e == SkipSpaces(s, m + 2 + Len(name))
         IN  IF e <= Len(s) /\ s[e] = ">" THEN e ELSE 0
    ELSE 0

\* <name[^>]*>.*?</name\s*> at position i: index of its last character, 0 when
\* it does not match. [^>]* followed by ">" ends at the first ">"; the lazy .*?
\* ends at the first closing tag after it.
ElementEnd(s, i, name) ==
    IF s[i] = "<" /\ MatchWord(s, i + 1, name)
    THEN LET g == FirstGT(s, i + 1 + Len(name))
         IN  IF g = 0 THEN 0
             ELSE LET ms == {m \in (g + 1)..Len(s) : CloseTagEnd(s, m, name) # 0}
                  IN  IF ms = {} THEN 0
                      ELSE CloseTagEnd(s, CHOOSE m \in ms : \A k \in ms : m <= k, name)
    ELSE 0

\* (?is)<(script|style)[^>]*>.*?</\1\s*> at position i
ScriptStyleEnd(s, i) ==
    IF ElementEnd(s, i, Word_script) # 0 THEN ElementEnd(s, i, Word_script)
    ELSE ElementEnd(s, i, Word_style)

RECURSIVE SubScriptStyle(_, _)
\* re.sub(<the pattern above>, "", s) from position i on
SubScriptStyle(s, i) ==
    IF i > Len(s) THEN <<>>
    ELSE LET e == ScriptStyleEnd(s, i)
         IN  IF e # 0 THEN SubScriptStyle(s, e + 1)
             ELSE <<s[i]>> \o SubScriptStyle(s, i + 1)

\* position of the tag name in a match of </?([a-z0-9]+)(\s+[^>]*)?> at i
TagNameStart(s, i) == IF i + 1 <= Len(s) /\ s[i + 1] = "/" THEN i + 2 ELSE i + 1

\* (?is)</?([a-z0-9]+)(\s+[^>]*)?> at position i: index of its ">", 0 when it
\* does not match. The name is the whole run of [a-z0-9]: a shorter name is
\* followed by a name character, which is neither whitespace nor ">".
TagEnd(s, i) ==
    IF s[i] # "<" THEN 0
    ELSE LET n0 == TagNameStart(s, i)
             n1 == AlnumEnd(s, n0)
         IN  IF n1 = n0 \/ n1 > Len(s) THEN 0
             ELSE IF s[n1] = ">" THEN n1
             ELSE IF IsSpace(s[n1]) THEN FirstGT(s, n1 + 1)
             ELSE 0

\* m.group(1).lower() of the match at position i
TagName(s, i) == LowerStr(Slice(s, TagNameStart(s, i), AlnumEnd(s, TagNameStart(s, i)) - 1))

RECURSIVE SubDisallowed(_, _)
\* re.sub(<the pattern above>, _strip_disallowed, s) from position i on
SubDisallowed(s, i) ==
    IF i > Len(s) THEN <<>>
    ELSE LET e == TagEnd(s, i)
         IN  IF e = 0 THEN <<s[i]>> \o SubDisallowed(s, i + 1)
             ELSE IF TagName(s, i) \in allowed
                  THEN SubSeq(s, i, e) \o SubDisallowed(s, e + 1)
                  ELSE SubDisallowed(s, e + 1)

\* the two passes, lines 421 and 427
SanitizePasses(out) == SubDisallowed(Strip(SubScriptStyle(out, 1)), 1)

\* "<p><strong>Summary</strong>: Not stated in the source.</p>"
FallbackBody ==
    <<"<","p",">","<","s","t","r","o","n","g",">","S","u","m","m","a","r","y",
      "<","/","s","t","r","o","n","g",">",":"," ","N","o","t"," ","s","t","a",
      "t","e","d"," ","i","n"," ","t","h","e"," ","s","o","u","r","c","e",".",
      "<","/","p",">">>

\* deepseek_chat returns the message content stripped
ChatContent(raw) == Strip(raw)

\* lines 429-430: the fallback when nothing is left
BodyOf(out) == IF out = <<>> THEN FallbackBody ELSE out

----------------------------------------------------------------------------
(* load_config *)

\* A required text field of config.json: not given, given as whitespace only,
\* or given with text.
FieldKinds == {"absent", "blank", "text"}
\* site.base_url: also "/" (empty once rstrip("/") is applied), a URL of another
\* scheme, an https URL
BaseUrlKinds == {"absent", "blank", "slash", "ftp", "https"}
\* generation.temperature and generation.max_tokens: not given, a number, or a
\* string that float() / int() reject
NumberKinds == {"absent", "number", "nonnumeric"}

ConfigDocs ==
    [title : FieldKinds, description : FieldKinds, base_url : BaseUrlKinds,
     rss_url : FieldKinds, contact_email : FieldKinds,
     temperature : NumberKinds, max_tokens : NumberKinds]

\* str(v or "").strip() is empty
EmptyField(kind) == kind \in {"absent", "blank"}

\* lines 133-143, in the order of the appends
MissingList(doc) ==
    (IF EmptyField(doc.title) THEN <<"site.title">> ELSE <<>>)
    \o (IF EmptyField(doc.description) THEN <<"site.description">> ELSE <<>>)
    \o (IF doc.base_url \in {"absent", "blank", "slash"} THEN <<"site.base_url">> ELSE <<>>)
    \o (IF EmptyField(doc.rss_url) THEN <<"rss_url">> ELSE <<>>)
    \o (IF EmptyField(doc.contact_email) THEN <<"contact_email">> ELSE <<>>)

\* status of a Python process that ends on an exception nobody catches
UncaughtExit == 1

\* load_config has not run
NoResult == [kind |-> "none", code |-> 0, named |-> <<>>]

\* load_config once config.json is parsed (lines 119-156): float() and int()
\* run at lines 128-129, before the list of missing fields is looked at
ParseConfig(doc) ==
    IF doc.temperature = "nonnumeric" \/ doc.max_tokens = "nonnumeric"
    THEN [kind |-> "uncaught", code |-> UncaughtExit, named |-> <<>>]
    ELSE IF MissingList(doc) # <<>>
    THEN [kind |-> "missing_fields", code |-> 2, named |-> MissingList(doc)]
    ELSE IF doc.base_url # "https"
    THEN [kind |-> "bad_base_url", code |-> 2, named |-> <<>>]
    ELSE [kind |-> "ok", code |-> 0, named |-> <<>>]

----------------------------------------------------------------------------
(* main: one invocation after another on the same directory *)

\* invocations modelled
MaxRuns == 2

\* What .lite_lock.json may hold when it exists: the payload write_lite_lock
\* writes, an object without created_utc, JSON that is no object, text that
\* is no JSON, bytes that cannot be read.
MarkerKinds == {"valid", "no_created_utc", "not_object", "not_json", "unreadable"}

\* API answers the pipeline is run on: "", "<p>x</p>", "<b>x</b>"
PipelineTexts ==
    { <<>>,
      <<"<","p",">","x","<","/","p",">">>,
      <<"<","b",">","x","<","/","b",">">> }

Artifacts == {"index.html", "posts/slug.html", "robots.txt", "sitemap.xml"}

\* variant: the configuration is loaded before the marker is looked at
MainOrderConfigFirst ==
    <<"load_config", "check_lite_lock", "fetch_latest_item", "generate_body_html",
      "copy_assets", "render_site", "write_lite_lock">>

\* variant: the marker is written before the site is rendered
MainOrderLockBeforeRender ==
    <<"check_lite_lock", "load_config", "fetch_latest_item", "generate_body_html",
      "copy_assets", "write_lite_lock", "render_site">>

\* variant: the assets are copied before the body is generated
MainOrderAssetsFirst ==
    <<"check_lite_lock", "load_config", "fetch_latest_item", "copy_assets",
      "generate_body_html", "render_site", "write_lite_lock">>

\* the calls of main(), lines 462-470
MainOrder ==
    <<"check_lite_lock", "load_config", "fetch_latest_item", "generate_body_html",
      "copy_assets", "render_site", "write_lite_lock">>

\* where main() goes when the call `stage` returns
StageAfter(stage) ==
    LET k == CHOOSE j \in 1..Len(MainOrder) : MainOrder[j] = stage
    IN  IF k = Len(MainOrder) THEN "done" ELSE MainOrder[k + 1]

\* the call returns: main() goes on
Return(stage, evs) ==
    /\ pc' = StageAfter(stage)
    /\ events' = events \o evs
    /\ UNCHANGED <<exitCode, cause>>

\* die(msg, code): SystemExit(code)
die(code, why, evs) ==
    /\ pc' = "exited"
    /\ exitCode' = code
    /\ cause' = why
    /\ events' = events \o evs

\* an exception that nothing catches ends the process
Uncaught(why, evs) == die(UncaughtExit, why, evs)

\* variant: a marker that cannot be parsed does not stop the run
LockStopsOnlyIfParsed(marker) == marker \in {"valid", "no_created_utc", "not_object"}

\* LITE_LOCK_PATH.exists(), line 348: the content is read for the message only
LockStops(marker) == marker # "absent"

\* `when` of lines 349-354: the first run's time, when the marker gives one
LockWhen(marker) == IF marker = "valid" THEN "created_utc" ELSE "none"

StartRun ==
    /\ pc \in {"idle", "exited"}
    /\ runs < MaxRuns
    /\ \E m \in {"pipeline", "selftest"} :
          /\ mode' = m
          /\ pc' = IF m = "selftest" THEN "selftest" ELSE MainOrder[1]
    /\ runs' = runs + 1
    /\ exitCode' = "running"
    /\ cause' = "none"
    /\ events' = <<>>
    /\ startLock' = lock
    /\ apiText' = <<>>
    /\ sanitized' = <<>>
    /\ body' = <<>>
    /\ UNCHANGED <<lock, files, lockWrites, resanitized, sanPc, cfgVars, teaVars>>

\* lines 438-450, and the return of line 460
selftest ==
    /\ pc = "selftest"
    /\ \E example \in BOOLEAN, index \in BOOLEAN, post \in BOOLEAN, css \in BOOLEAN :
          IF ~example
          THEN die(5, "selftest_missing", <<<<"exists", "config.example.json">>>>)
          ELSE IF ~index
          THEN die(5, "selftest_missing", <<<<"exists", "config.example.json">>,
                                           <<"exists", "templates/index.html">>>>)
          ELSE IF ~post
          THEN die(5, "selftest_missing", <<<<"exists", "config.example.json">>,
                                           <<"exists", "templates/index.html">>,
                                           <<"exists", "templates/post.html">>>>)
          ELSE IF ~css
          THEN die(5, "selftest_missing", <<<<"exists", "config.example.json">>,
                                           <<"exists", "templates/index.html">>,
                                           <<"exists", "templates/post.html">>,
                                           <<"exists", "assets/style.css">>>>)
          ELSE die(0, "selftest_ok", <<<<"exists", "config.example.json">>,
                                      <<"exists", "templates/index.html">>,
                                      <<"exists", "templates/post.html">>,
                                      <<"exists", "assets/style.css">>>>)
    /\ UNCHANGED <<mode, lock, startLock, files, runs, lockWrites, sanVars, cfgVars, teaVars>>

check_lite_lock ==
    /\ pc = "check_lite_lock"
    /\ IF LockStops(lock)
       THEN die(0, IF LockWhen(lock) = "none" THEN "locked" ELSE "locked_first_run_known",
                <<<<"exists", ".lite_lock.json">>, <<"read", ".lite_lock.json">>>>)
       ELSE Return("check_lite_lock",
                   IF lock = "absent"
                   THEN <<<<"exists", ".lite_lock.json">>>>
                   ELSE <<<<"exists", ".lite_lock.json">>, <<"read", ".lite_lock.json">>>>)
    /\ UNCHANGED <<mode, lock, startLock, files, runs, lockWrites, sanVars, cfgVars, teaVars>>

\* config.json: not there, not JSON, or one of ConfigDocs
load_config ==
    /\ pc = "load_config"
    /\ \E file \in {"missing", "not_json", "json"}, doc \in ConfigDocs :
          IF file = "missing"
          THEN die(2, "config_file_missing", <<<<"exists", "config.json">>>>)
          ELSE IF file = "not_json"
          THEN Uncaught("config_not_json",
                        <<<<"exists", "config.json">>, <<"read", "config.json">>>>)
          ELSE IF ParseConfig(doc).kind = "ok"
          THEN Return("load_config",
                      <<<<"exists", "config.json">>, <<"read", "config.json">>>>)
          ELSE die(ParseConfig(doc).code, "config_" \o ParseConfig(doc).kind,
                   <<<<"exists", "config.json">>, <<"read", "config.json">>>>)
    /\ UNCHANGED <<mode, lock, startLock, files, runs, lockWrites, sanVars, cfgVars, teaVars>>

\* What the feed request gives: requests.get raises, raise_for_status raises,
\* a feed without entries, a first entry without title, without link, an entry.
FeedOutcomes == {"request_error", "http_status", "no_entries", "no_title", "no_link", "entry"}

fetch_latest_item ==
    /\ pc = "fetch_latest_item"
    /\ \E feed \in FeedOutcomes :
          CASE feed = "request_error" ->
                  Uncaught("feed_request_error", <<<<"GET", "rss_url">>>>)
            [] feed = "http_status" ->
                  Uncaught("feed_http_status", <<<<"GET", "rss_url">>>>)
            [] feed = "no_entries" ->
                  die(4, "feed_no_entries", <<<<"GET", "rss_url">>>>)
            [] feed \in {"no_title", "no_link"} ->
                  die(4, "feed_entry_incomplete", <<<<"GET", "rss_url">>>>)
            [] feed = "entry" ->
                  Return("fetch_latest_item", <<<<"GET", "rss_url">>>>)
    /\ UNCHANGED <<mode, lock, startLock, files, runs, lockWrites, sanVars, cfgVars, teaVars>>

\* What the generation request gives: requests.post raises, a status other than
\* 200, a body r.json() rejects, JSON without choices[0].message.content, content.
ApiOutcomes == {"request_error", "not_200", "not_json", "bad_shape", "content"}

generate_body_html ==
    /\ pc = "generate_body_html"
    /\ \E key \in BOOLEAN, api \in ApiOutcomes, raw \in PipelineTexts :
          IF ~key
          THEN /\ die(2, "no_api_key", <<<<"getenv", "DEEPSEEK_API_KEY">>>>)
               /\ UNCHANGED <<apiText, sanitized, body>>
          ELSE IF api = "content"
          THEN /\ apiText' = raw
               /\ sanitized' = SanitizePasses(ChatContent(raw))
               /\ body' = BodyOf(sanitized')
               /\ Return("generate_body_html",
                         <<<<"getenv", "DEEPSEEK_API_KEY">>, <<"POST", "deepseek">>>>)
          ELSE /\ IF api \in {"not_200", "bad_shape"}
                  THEN die(3, "api_" \o api,
                           <<<<"getenv", "DEEPSEEK_API_KEY">>, <<"POST", "deepseek">>>>)
                  ELSE Uncaught("api_" \o api,
                                <<<<"getenv", "DEEPSEEK_API_KEY">>, <<"POST", "deepseek">>>>)
               /\ UNCHANGED <<apiText, sanitized, body>>
    /\ UNCHANGED <<mode, lock, startLock, files, runs, lockWrites, resanitized, sanPc,
                   cfgVars, teaVars>>

copy_assets ==
    /\ pc = "copy_assets"
    /\ \E css \in BOOLEAN, appjs \in BOOLEAN :
          IF ~css
          THEN /\ die(5, "asset_style_css_missing", <<<<"exists", "assets/style.css">>>>)
               /\ UNCHANGED files
          ELSE IF ~appjs
          THEN /\ files' = files \cup {"assets/style.css"}
               /\ Return("copy_assets", <<<<"exists", "assets/style.css">>,
                                          <<"write", "assets/style.css">>,
                                          <<"exists", "assets/app.js">>>>)
          ELSE /\ files' = files \cup {"assets/style.css", "assets/app.js"}
               /\ Return("copy_assets", <<<<"exists", "assets/style.css">>,
                                          <<"write", "assets/style.css">>,
                                          <<"exists", "assets/app.js">>,
                                          <<"write", "assets/app.js">>>>)
    /\ UNCHANGED <<mode, lock, startLock, runs, lockWrites, sanVars, cfgVars, teaVars>>

\* templates/ may be missing (jinja_env dies), and get_template raises when a
\* template is missing; each file is written as soon as it is rendered.
render_site ==
    /\ pc = "render_site"
    /\ \E dir \in BOOLEAN, index \in BOOLEAN, post \in BOOLEAN :
          IF ~dir
          THEN /\ die(5, "asset_templates_missing", <<<<"exists", "templates">>>>)
               /\ UNCHANGED files
          ELSE IF ~index
          THEN /\ Uncaught("asset_index_template_missing",
                           <<<<"exists", "templates">>, <<"load", "templates/index.html">>>>)
               /\ UNCHANGED files
          ELSE IF ~post
          THEN /\ files' = files \cup {"index.html"}
               /\ Uncaught("asset_post_template_missing",
                           <<<<"exists", "templates">>, <<"load", "templates/index.html">>,
                             <<"write", "index.html">>, <<"load", "templates/post.html">>>>)
          ELSE /\ files' = files \cup Artifacts
               /\ Return("render_site",
                         <<<<"exists", "templates">>, <<"load", "templates/index.html">>,
                           <<"write", "index.html">>, <<"load", "templates/post.html">>,
                           <<"write", "posts/slug.html">>, <<"write", "robots.txt">>,
                           <<"write", "sitemap.xml">>>>)
    /\ UNCHANGED <<mode, lock, startLock, runs, lockWrites, sanVars, cfgVars, teaVars>>

write_lite_lock ==
    /\ pc = "write_lite_lock"
    /\ lock' = "valid"
    /\ lockWrites' = lockWrites + 1
    /\ Return("write_lite_lock", <<<<"write", ".lite_lock.json">>>>)
    /\ UNCHANGED <<mode, startLock, files, runs, sanVars, cfgVars, teaVars>>

\* lines 472-473, then main() returns
finish ==
    /\ pc = "done"
    /\ die(0, "success", <<>>)
    /\ UNCHANGED <<mode, lock, startLock, files, runs, lockWrites, sanVars, cfgVars, teaVars>>

Init ==
    /\ mode = "pipeline"
    /\ pc = "idle"
    /\ exitCode = "running"
    /\ cause = "none"
    /\ events = <<>>
    /\ lock \in {"absent"} \cup MarkerKinds
    /\ startLock = lock
    /\ files = {}
    /\ runs = 0
    /\ lockWrites = 0
    /\ apiText = <<>> /\ sanitized = <<>> /\ body = <<>> /\ resanitized = <<>>
    /\ sanPc = "idle"
    /\ cfgDoc = "none" /\ cfgResult = NoResult
    /\ summary = <<>> /\ teaser = <<>> /\ teaserPc = "idle"

Next ==
    \/ StartRun
    \/ selftest
    \/ check_lite_lock
    \/ load_config
    \/ fetch_latest_item
    \/ generate_body_html
    \/ copy_assets
    \/ render_site
    \/ write_lite_lock
    \/ finish

Spec == Init /\ [][Next]_vars

----------------------------------------------------------------------------
(* generate_body_html on the texts the API may return *)

\* fragments an API answer is put together from
MaxFrags == 5

\* "<", ">", "/", " ", "P", "script", "<b>", "</SCRIPT>"
SanFragments ==
    { <<"<">>, <<">">>, <<"/">>, <<" ">>, <<"P">>,
      <<"s","c","r","i","p","t">>,
      <<"<","b",">">>,
      <<"<","/","S","C","R","I","P","T",">">> }

RECURSIVE Concat(_)
Concat(parts) == IF parts = <<>> THEN <<>> ELSE Head(parts) \o Concat(Tail(parts))

\* the texts of at most n fragments
ApiTexts(n) == UNION { {Concat(parts) : parts \in [1..k -> SanFragments]} : k \in 0..n }

IdlePipeline ==
    /\ mode = "pipeline" /\ pc = "idle" /\ exitCode = "running" /\ cause = "none"
    /\ events = <<>> /\ lock = "absent" /\ startLock = "absent" /\ files = {}
    /\ runs = 0 /\ lockWrites = 0

InitSanitize ==
    /\ IdlePipeline
    /\ apiText \in ApiTexts(MaxFrags)
    /\ sanitized = <<>> /\ body = <<>> /\ resanitized = <<>>
    /\ sanPc = "api"
    /\ cfgDoc = "none" /\ cfgResult = NoResult
    /\ summary = <<>> /\ teaser = <<>> /\ teaserPc = "idle"

\* lines 409-432 on the answer apiText
Sanitize ==
    /\ sanPc = "api"
    /\ sanitized' = SanitizePasses(ChatContent(apiText))
    /\ body' = BodyOf(sanitized')
    /\ sanPc' = "body"
    /\ UNCHANGED <<apiText, resanitized, pipeVars, cfgVars, teaVars>>

\* lines 421-427 once more, on their own output
Resanitize ==
    /\ sanPc = "body"
    /\ resanitized' = SanitizePasses(sanitized)
    /\ sanPc' = "resanitized"
    /\ UNCHANGED <<apiText, sanitized, body, pipeVars, cfgVars, teaVars>>

NextSanitize == Sanitize \/ Resanitize

SpecSanitize == InitSanitize /\ [][NextSanitize]_vars

----------------------------------------------------------------------------
(* load_config on the documents of ConfigDocs *)

InitConfig ==
    /\ IdlePipeline
    /\ apiText = <<>> /\ sanitized = <<>> /\ body = <<>> /\ resanitized = <<>>
    /\ sanPc = "idle"
    /\ cfgDoc \in ConfigDocs
    /\ cfgResult = NoResult
    /\ summary = <<>> /\ teaser = <<>> /\ teaserPc = "idle"

Validate ==
    /\ cfgResult = NoResult
    /\ cfgResult' = ParseConfig(cfgDoc)
    /\ UNCHANGED <<cfgDoc, pipeVars, sanVars, teaVars>>

NextConfig == Validate

SpecConfig == InitConfig /\ [][NextConfig]_vars

----------------------------------------------------------------------------
(* the teaser of render_site on the summaries a feed may carry *)

\* characters of a summary
MaxSummaryLen == 6

SummaryChars == {"<", ">", " ", "\n", "b"}

\* the summaries of at most n characters
Summaries(n) == UNION { [1..k -> SummaryChars] : k \in 0..n }

InitTeaser ==
    /\ IdlePipeline
    /\ apiText = <<>> /\ sanitized = <<>> /\ body = <<>> /\ resanitized = <<>>
    /\ sanPc = "idle"
    /\ cfgDoc = "none" /\ cfgResult = NoResult
    /\ summary \in Summaries(MaxSummaryLen)
    /\ teaser = <<>>
    /\ teaserPc = "summary"

\* line 209 (the entry's summary, stripped) and line 306
Teaser ==
    /\ teaserPc = "summary"
    /\ teaser' = strip_tags(Strip(summary))
    /\ teaserPc' = "teaser"
    /\ UNCHANGED <<summary, pipeVars, sanVars, cfgVars>>

NextTeaser == Teaser

SpecTeaser == InitTeaser /\ [][NextTeaser]_vars

----------------------------------------------------------------------------
(* Properties *)

\* files the current run has written
Written == { events[k][2] : k \in {j \in DOMAIN events : events[j][1] = "write"} }

\* effects of the current run
Done(op, target) == \E k \in DOMAIN events : events[k] = <<op, target>>

\* C1: a run of main() started without the marker ends either with the four
\* artifacts written and the marker set, or with none of the four written and
\* the marker absent.
C1_NoPartialSuccess ==
    (mode = "pipeline" /\ pc = "exited" /\ startLock = "absent")
    => \/ Artifacts \subseteq Written /\ lock # "absent"
       \/ Written \cap Artifacts = {} /\ lock = "absent"

LockEvents == { <<"exists", ".lite_lock.json">>, <<"read", ".lite_lock.json">> }

\* C2: a run of main() that starts with the marker present looks at the marker
\* only (no feed GET, no generation POST, no read of the configuration, no
\* write), goes nowhere but to its exit, and exits with status 0; once the
\* marker is written it is there for every later run.
C2_IdempotencyGate ==
    /\ (mode = "pipeline" /\ pc # "idle" /\ startLock # "absent")
       => /\ \A k \in DOMAIN events : events[k] \in LockEvents
          /\ pc \in {"check_lite_lock", "exited"}
          /\ pc = "exited" => exitCode = 0
          /\ lock = startLock
    /\ lockWrites >= 1 => lock # "absent"

\* a rerun after a successful run has ended
C2_Witness ==
    /\ mode = "pipeline" /\ pc = "exited" /\ exitCode = 0
    /\ runs = 2 /\ lockWrites = 1 /\ startLock = "valid"
    /\ events = << <<"exists", ".lite_lock.json">>, <<"read", ".lite_lock.json">> >>

\* every stage before the commit has done its work in the current run
AllStagesSucceeded ==
    /\ Done("read", "config.json")
    /\ Done("GET", "rss_url")
    /\ Done("POST", "deepseek")
    /\ Done("write", "assets/style.css")
    /\ Artifacts \subseteq Written

\* C3: the marker changes only from absent to present, at most once over all
\* runs, by a write that follows the success of config validation, feed
\* retrieval, generation, asset copy and rendering and is the last write of
\* its run; a present marker is never rewritten or deleted, and a run that
\* fails leaves the marker as it found it.
C3_LockLifeCycle ==
    /\ [][ (lock' # lock \/ lockWrites' # lockWrites)
           => /\ lock = "absent" /\ lock' = "valid"
              /\ lockWrites = 0 /\ lockWrites' = 1
              /\ mode = "pipeline"
              /\ AllStagesSucceeded
              /\ events' = Append(events, <<"write", ".lite_lock.json">>) ]_vars
    /\ [](pc = "exited"
          => /\ exitCode # 0 => lock = startLock
             /\ lock # startLock
                => /\ exitCode = 0
                   /\ events[Len(events)] = <<"write", ".lite_lock.json">>)

\* a fully successful run has ended, the marker written
C3_Witness ==
    /\ mode = "pipeline" /\ pc = "exited" /\ cause = "success"
    /\ startLock = "absent" /\ lock = "valid" /\ lockWrites = 1

----------------------------------------------------------------------------
(* sanitizer *)

RECURSIVE CleanFrom(_, _)
\* Reading s from position i on, tag by tag as the sanitizer reads it: no script
\* or style element starts at a position outside a tag, and every tag has a
\* name of the allow-set.
CleanFrom(s, i) ==
    \/ i > Len(s)
    \/ /\ ScriptStyleEnd(s, i) = 0
       /\ IF TagEnd(s, i) = 0 THEN CleanFrom(s, i + 1)
          ELSE TagName(s, i) \in allowed /\ CleanFrom(s, TagEnd(s, i) + 1)

\* C4: whatever the API returns, the body of generate_body_html holds no
\* script or style element and no start or end tag whose lower-cased name is
\* outside {p, h2, ul, li, strong, code, a}.
C4_SanitizerSafety ==
    sanPc # "api" => CleanFrom(body, 1)

\* C5: the two sanitizer passes applied to their own output change nothing.
C5_SanitizerIdempotent ==
    sanPc = "resanitized" => resanitized = sanitized

----------------------------------------------------------------------------
(* configuration *)

\* required fields that are absent or empty after trimming
RequiredMissing(doc) ==
    {f \in {"site.title"} : EmptyField(doc.title)}
    \cup {f \in {"site.description"} : EmptyField(doc.description)}
    \cup {f \in {"site.base_url"} : EmptyField(doc.base_url)}
    \cup {f \in {"rss_url"} : EmptyField(doc.rss_url)}
    \cup {f \in {"contact_email"} : EmptyField(doc.contact_email)}

\* C6: a configuration document with a required field absent or empty makes
\* load_config fail with the config status and a message naming each of them,
\* whatever generation.temperature and generation.max_tokens hold.
C6_CompleteConfigError ==
    (cfgResult # NoResult /\ RequiredMissing(cfgDoc) # {})
    => /\ cfgResult.code = 2
       /\ RequiredMissing(cfgDoc)
             \subseteq {cfgResult.named[k] : k \in DOMAIN cfgResult.named}

----------------------------------------------------------------------------
(* exit status *)

\* the class of what ended a run
FailureClass(why) ==
    CASE why \in {"success", "locked", "locked_first_run_known", "selftest_ok"} -> "ok"
      [] why \in {"config_file_missing", "config_not_json", "config_uncaught",
                  "config_missing_fields", "config_bad_base_url", "no_api_key"} -> "config"
      [] why \in {"feed_request_error", "feed_http_status", "feed_no_entries",
                  "feed_entry_incomplete"} -> "feed"
      [] why \in {"api_request_error", "api_not_200", "api_not_json",
                  "api_bad_shape"} -> "generation"
      [] OTHER -> "asset"

\* the status die() is given for each class (lines 146, 204, 183, 230)
ClassStatus(class) ==
    CASE class = "ok" -> 0
      [] class = "config" -> 2
      [] class = "feed" -> 4
      [] class = "generation" -> 3
      [] class = "asset" -> 5

\* C7: a run ends with the status of its outcome class: 0 for success and for
\* the lock short-circuit, and one status each for config, feed, generation
\* and asset errors; every feed failure ends with the status of the
\* zero-entries case.
C7_ExitStatusPerClass ==
    pc = "exited" => exitCode = ClassStatus(FailureClass(cause))

----------------------------------------------------------------------------
(* gates *)

\* C8: a marker that exists with content that cannot be read, is not JSON, is
\* no object or has no created_utc ends the run with status 0 in
\* check_lite_lock, before any other stage does anything.
C8_ExistenceAloneGates ==
    (mode = "pipeline" /\ pc # "idle" /\ startLock \in MarkerKinds \ {"valid"})
    => /\ pc \in {"check_lite_lock", "exited"}
       /\ pc = "check_lite_lock" => events = <<>>
       /\ pc = "exited"
          => /\ exitCode = 0
             /\ cause = "locked"
             /\ events = << <<"exists", ".lite_lock.json">>, <<"read", ".lite_lock.json">> >>

\* a run on a marker that is not JSON has ended
C8_Witness ==
    /\ mode = "pipeline" /\ pc = "exited" /\ exitCode = 0
    /\ startLock = "not_json" /\ lock = "not_json"

\* the stage an effect belongs to: 1 lock check, 2 config validation, 3 feed
\* retrieval, 4 content generation, 5 rendering (assets and site), 6 lock commit
StageOfEvent(e) ==
    CASE e \in LockEvents -> 1
      [] e[2] = "config.json" -> 2
      [] e[1] = "GET" -> 3
      [] e[1] \in {"getenv", "POST"} -> 4
      [] e = <<"write", ".lite_lock.json">> -> 6
      [] OTHER -> 5

\* the stage a failure belongs to
StageOfCause(why) ==
    CASE FailureClass(why) = "ok" -> 1
      [] why = "no_api_key" -> 4
      [] FailureClass(why) = "config" -> 2
      [] FailureClass(why) = "feed" -> 3
      [] FailureClass(why) = "generation" -> 4
      [] OTHER -> 5

\* the stage main() is in
StageOfPc ==
    CASE pc = "check_lite_lock" -> 1
      [] pc = "load_config" -> 2
      [] pc = "fetch_latest_item" -> 3
      [] pc = "generate_body_html" -> 4
      [] pc \in {"copy_assets", "render_site"} -> 5
      [] pc = "write_lite_lock" -> 6
      [] OTHER -> 7

\* C9: the stages act in the order lock check, config validation, feed
\* retrieval, generation, rendering, lock commit; after a stage fails no later
\* stage acts; a run that fails in config validation, feed retrieval or
\* generation writes no file, and one that fails before generation (or for
\* want of the credential) makes no generation call.
C9_HardGates ==
    mode = "pipeline"
    => /\ \A i, j \in DOMAIN events :
             i < j => StageOfEvent(events[i]) <= StageOfEvent(events[j])
       /\ pc \notin {"idle", "exited"}
          => \A k \in DOMAIN events :
                \/ StageOfEvent(events[k]) < StageOfPc
                \/ pc = "render_site" /\ StageOfEvent(events[k]) = 5
       /\ (pc = "exited" /\ exitCode # 0)
          => /\ \A k \in DOMAIN events : StageOfEvent(events[k]) <= StageOfCause(cause)
             /\ StageOfCause(cause) <= 4 => Written = {}
             /\ (StageOfCause(cause) < 4 \/ cause = "no_api_key")
                => ~Done("POST", "deepseek")

\* a run on a feed without entries has ended
C9_Witness ==
    /\ mode = "pipeline" /\ pc = "exited" /\ cause = "feed_no_entries"
    /\ exitCode = 4
    /\ Done("GET", "rss_url")
    /\ Written = {}

----------------------------------------------------------------------------
(* teaser *)

====
